---- MODULE Spec2Model ----
(***************************************************************************)
(* hear-eval-kit, heareval/tasks/util/luigi.py: the deterministic          *)
(* train/valid/test split assigner (filename_to_int_hash, which_set) and   *)
(* the stage numbering of the task DAG (WorkTask.stage_number).            *)
(*                                                                         *)
(* Specifications:                                                         *)
(*   Spec        one call of which_set on an integer digest                *)
(*   SpecSweep   which_set over 100 consecutive digests, tallied per label *)
(*   SpecCalls   a history of which_set(filename_to_int_hash(id), v, t)    *)
(*   SpecGrowth  a pipeline re-run over a growing population of files      *)
(*   SpecConc    several processes running the two functions line by line  *)
(*   SpecStage   a task DAG under construction and its stage numbers       *)
(***************************************************************************)
EXTENDS Integers, Sequences, FiniteSets, TLC

VARIABLES
    validation_percentage,  \* which_set's argument / the pipeline's setting
    testing_percentage,     \* which_set's argument / the pipeline's setting
    pc,                     \* Spec: "called" | "returned"
    filename_hash,          \* Spec: which_set's first argument
    result,                 \* Spec: which_set's return value
    sweep_base,             \* SpecSweep: the first digest of the sweep
    cursor,                 \* SpecSweep: digests assigned so far
    counts,                 \* SpecSweep: label -> number of digests given it
    calls,                  \* SpecCalls: the calls made so far, with results
    population,             \* SpecGrowth: the file names seen so far
    first_label,            \* SpecGrowth: name -> label when first assigned
    partition,              \* SpecGrowth: name -> label of the latest run
    hash_seed,              \* the running process's PYTHONHASHSEED
    frames,                 \* SpecConc: process -> its locals and position
    tasks                   \* SpecStage: the tasks built so far

pctVars   == <<validation_percentage, testing_percentage>>
callVars  == <<pc, filename_hash, result>>
sweepVars == <<sweep_base, cursor, counts>>
logVars   == <<calls>>
growVars  == <<population, first_label, partition>>
concVars  == <<frames>>
dagVars   == <<tasks>>
envVars   == <<hash_seed>>
vars == <<envVars, pctVars, callVars, sweepVars, logVars, growVars, concVars,
          dagVars>>

----------------------------------------------------------------------------
(* Bounds of the model *)

\* Digests of Spec range over -MaxDigest..MaxDigest (a full cycle of
\* residues on either side of 0) plus a few large values.
MaxDigest == 105
\* Percentages above 100 go up to 100 + MaxExcess.
MaxExcess == 20
\* Calls recorded by SpecCalls.
MaxCalls == 3
\* Processes of SpecConc.
NumProcs == 2
\* Tasks of the DAG of SpecStage.
MaxTasks == 3

----------------------------------------------------------------------------
(* which_set: luigi.py 143-175 *)

\* The modulus of line 168.
Buckets == 100

Labels == {"train", "valid", "test"}

\* Line 168: percentage_hash = filename_hash % 100. Python's % with a
\* positive modulus yields a value in 0..99 for negative operands too, as
\* does TLA+'s.
percentage_hash(h) == h % Buckets

\* Lines 169-174 on an already computed percentage_hash.
branch(ph, v, t) ==
    IF ph < v THEN "valid"
    ELSE IF ph < (t + v) THEN "test"
    ELSE "train"

\* Faulty variant: the first comparison is inclusive.
which_set_inclusive(h, v, t) ==
    LET ph == percentage_hash(h) IN
    IF ph <= v THEN "valid"
    ELSE IF ph < (t + v) THEN "test"
    ELSE "train"

\* Faulty variant: the inputs are validated and a bad sum is an error.
which_set_validating(h, v, t) ==
    IF v + t > Buckets THEN "ValueError" ELSE branch(percentage_hash(h), v, t)

\* Faulty variant: the second threshold forgets the validation percentage.
which_set_unsummed(h, v, t) ==
    LET ph == percentage_hash(h) IN
    IF ph < v THEN "valid"
    ELSE IF ph < t THEN "test"
    ELSE "train"

\* Faulty variant: the second comparison is inclusive.
which_set_inclusive_test(h, v, t) ==
    LET ph == percentage_hash(h) IN
    IF ph < v THEN "valid"
    ELSE IF ph <= (t + v) THEN "test"
    ELSE "train"

which_set(h, v, t) == branch(percentage_hash(h), v, t)

----------------------------------------------------------------------------
(* Inputs *)

Percentages == {0, 1, 10, 20, 50, 60, 99, 100, 100 + MaxExcess}

\* Python integers are unbounded and TLC's have 32 bits. A 160-bit digest is
\* carried as its residue modulo DigestWindow, a multiple of the modulus of
\* line 168, so that its percentage_hash is the digest's own.
DigestWindow == Buckets * 1000000

Digests == (-MaxDigest .. MaxDigest) \cup {12345, DigestWindow - 1}

----------------------------------------------------------------------------
(* Values of the variables a specification does not use *)

PctUnused   == validation_percentage = 0 /\ testing_percentage = 0
CallUnused  == pc = "unused" /\ filename_hash = 0 /\ result = "none"
SweepUnused == sweep_base = 0 /\ cursor = 0 /\ counts = [l \in Labels |-> 0]
LogUnused   == calls = <<>>
GrowUnused  == population = {} /\ first_label = <<>> /\ partition = <<>>
ConcUnused  == frames = <<>>
DagUnused   == tasks = <<>>
EnvUnused   == hash_seed = 0

----------------------------------------------------------------------------
(* Spec: one call of which_set on an integer digest *)

Init ==
    /\ filename_hash \in Digests
    /\ validation_percentage \in Percentages
    /\ testing_percentage \in Percentages
    /\ pc = "called"
    /\ result = "none"
    /\ SweepUnused /\ LogUnused /\ GrowUnused /\ ConcUnused /\ DagUnused
    /\ EnvUnused

\* The body of which_set, lines 168-175.
CallWhichSet ==
    /\ pc = "called"
    /\ result' = which_set(filename_hash, validation_percentage, testing_percentage)
    /\ pc' = "returned"
    /\ UNCHANGED <<envVars, filename_hash, pctVars, sweepVars, logVars,
                   growVars,
                   concVars, dagVars>>

\* The caller's next call: another digest under the same percentages.
NextCall(h) ==
    /\ pc = "returned"
    /\ filename_hash' = h
    /\ pc' = "called"
    /\ result' = "none"
    /\ UNCHANGED <<envVars, pctVars, sweepVars, logVars, growVars, concVars,
                   dagVars>>

Next ==
    \/ CallWhichSet
    \/ \E h \in Digests : NextCall(h)

Spec == Init /\ [][Next]_vars

\* The bucket of a digest, stated without %: the b in 0..99 that differs
\* from the digest by a multiple of 100.
BucketOf(d) ==
    CHOOSE b \in 0 .. 99 : ((d - b) \div 100) * 100 = d - b

Returned == pc = "returned"

\* C1: which_set returns "valid" exactly when bucket < v, "test" exactly when
\* v <= bucket < v + t and "train" exactly when bucket >= v + t, where bucket
\* is digest mod 100; so bucket = v is never "valid" and bucket = v + t is
\* never "test"; with v = 10, t = 10 bucket 5 is valid, bucket 15 is test and
\* digest 12345 is train.
C1_HalfOpenIntervals ==
    Returned =>
        LET b == BucketOf(filename_hash)
            v == validation_percentage
            t == testing_percentage
        IN  /\ (result = "valid") <=> (b < v)
            /\ (result = "test")  <=> (v <= b /\ b < v + t)
            /\ (result = "train") <=> (b >= v + t)
            /\ (b = v) => result # "valid"
            /\ (b = v + t) => result # "test"
            /\ (v = 10 /\ t = 10 /\ filename_hash = 5) => result = "valid"
            /\ (v = 10 /\ t = 10 /\ filename_hash = 15) => result = "test"
            /\ (v = 10 /\ t = 10 /\ filename_hash = 12345) => result = "train"

\* C1 witness: a call returned on the boundary bucket = v, with a test
\* interval that is not empty.
C1_Witness ==
    /\ Returned
    /\ filename_hash = -90
    /\ validation_percentage = 10
    /\ testing_percentage = 10
    /\ result = "test"

\* C2: every call of which_set completes with one of the three labels; no
\* error outcome is reachable, whatever the digest and the percentages.
C2_AlwaysALabel ==
    /\ pc \in {"called", "returned"}
    /\ Returned => result \in Labels
    /\ (pc = "called") => ENABLED CallWhichSet

\* C2 witness: a call with a negative digest and percentages that sum to
\* more than 100 has returned a label.
C2_Witness ==
    /\ Returned
    /\ filename_hash < 0
    /\ validation_percentage + testing_percentage > Buckets
    /\ result \in Labels

\* C7: with validation percentage 0 and testing percentage 0 every digest is
\* assigned to "train".
C7_ZeroPercentagesAllTrain ==
    (Returned /\ validation_percentage = 0 /\ testing_percentage = 0)
        => result = "train"

\* C7 witness: bucket 0 under (0, 0) has been assigned to train.
C7_Witness ==
    /\ Returned
    /\ validation_percentage = 0 /\ testing_percentage = 0
    /\ filename_hash = -100
    /\ result = "train"

\* C8: with validation percentage 50 and testing percentage 50 no digest is
\* assigned to "train".
C8_FullSplitNoTrain ==
    (Returned /\ validation_percentage = 50 /\ testing_percentage = 50)
        => result \in {"valid", "test"}

\* C8 witness: bucket 99 under (50, 50) has been assigned to test.
C8_Witness ==
    /\ Returned
    /\ validation_percentage = 50 /\ testing_percentage = 50
    /\ filename_hash = -1
    /\ result = "test"

----------------------------------------------------------------------------
(* SpecSweep: which_set over the 100 consecutive digests                   *)
(* sweep_base .. sweep_base + 99, one of each bucket, tallied per label    *)

SweepBases == {0, 12345, DigestWindow - Buckets, 0 - MaxDigest}

InitSweep ==
    /\ validation_percentage \in Percentages
    /\ testing_percentage \in Percentages
    /\ sweep_base \in SweepBases
    /\ cursor = 0
    /\ counts = [l \in Labels |-> 0]
    /\ CallUnused /\ LogUnused /\ GrowUnused /\ ConcUnused /\ DagUnused
    /\ EnvUnused

\* The caller assigns the next digest and files it under the label returned.
AssignNext ==
    /\ cursor < Buckets
    /\ LET label == which_set(sweep_base + cursor, validation_percentage,
                              testing_percentage)
       IN  counts' = [counts EXCEPT ![label] = @ + 1]
    /\ cursor' = cursor + 1
    /\ UNCHANGED <<envVars, sweep_base, pctVars, callVars, logVars, growVars,
                   concVars,
                   dagVars>>

NextSweep == AssignNext

SpecSweep == InitSweep /\ [][NextSweep]_vars

SweepDone == cursor = Buckets

Min(a, b) == IF a < b THEN a ELSE b

\* C5: for percentages v, t >= 0 with v + t <= 100, exactly v of the 100
\* buckets are assigned to "valid", exactly t to "test" and exactly
\* 100 - v - t to "train".
C5_SplitSizes ==
    (SweepDone /\ validation_percentage + testing_percentage <= 100) =>
        /\ counts["valid"] = validation_percentage
        /\ counts["test"] = testing_percentage
        /\ counts["train"] = 100 - validation_percentage - testing_percentage

\* C5 witness: a finished sweep under (10, 20) with all three partitions
\* populated.
C5_Witness ==
    /\ SweepDone
    /\ validation_percentage = 10 /\ testing_percentage = 20
    /\ counts["valid"] = 10 /\ counts["test"] = 20 /\ counts["train"] = 70

\* C6 as claimed: when v + t > 100 (each percentage within 0..100) every
\* digest still gets a label and the valid and test partitions are as
\* requested, only train being smaller.
C6_OtherPartitionsAsRequested ==
    (/\ SweepDone
     /\ validation_percentage + testing_percentage > 100
     /\ validation_percentage <= 100
     /\ testing_percentage <= 100) =>
        /\ counts["valid"] + counts["test"] + counts["train"] = Buckets
        /\ counts["valid"] = validation_percentage
        /\ counts["test"] = testing_percentage

\* C6 as amended: for non-negative integer percentages with v + t > 100
\* which_set raises no error and every digest still gets a label; no bucket
\* is assigned to "train", "valid" gets min(v, 100) buckets as requested, and
\* "test" gets only the remaining 100 - min(v, 100) buckets, fewer than the
\* t requested unless t = 0.
C6_TrainEmptyTestTruncated ==
    (validation_percentage + testing_percentage > 100) =>
        /\ counts["valid"] + counts["test"] + counts["train"] = cursor
        /\ counts["train"] = 0
        /\ SweepDone =>
            /\ counts["valid"] = Min(validation_percentage, 100)
            /\ counts["test"] = 100 - Min(validation_percentage, 100)
            /\ counts["test"] <= testing_percentage
            /\ (testing_percentage > 0) => counts["test"] < testing_percentage

\* C6 witness: a finished sweep under (60, 60): 60 valid, 40 test, no train.
C6_Witness ==
    /\ SweepDone
    /\ validation_percentage = 60 /\ testing_percentage = 60
    /\ counts["valid"] = 60 /\ counts["test"] = 40 /\ counts["train"] = 0

----------------------------------------------------------------------------
(* filename_to_int_hash: luigi.py 135-140 *)

\* The file names of the model.
Identifiers == {"a.wav", "b.wav", "c.wav", "cat/2.wav", "d.wav", "e.wav"}

\* hashlib.sha1(text.encode("utf-8")).hexdigest() of line 139, as the table
\* of the 40 hexadecimal digits SHA-1 gives each file name of the model.
sha1_hexdigest(text) ==
    CASE
      text = "a.wav" ->
        <<9, 6, 6, 3, 12, 5, 12, 9, 1, 7, 1, 14, 5, 0, 0, 13, 1, 2, 15, 15, 10, 0, 1, 0, 11, 9, 15, 1, 4, 8, 8, 5, 13, 4, 8, 5, 6, 3, 0, 8>>
   []
      text = "b.wav" ->
        <<7, 4, 7, 5, 1, 8, 7, 3, 6, 11, 4, 9, 15, 6, 11, 1, 12, 12, 7, 13, 9, 12, 6, 10, 9, 14, 7, 3, 8, 12, 11, 3, 12, 14, 2, 12, 1, 6, 12, 3>>
   []
      text = "c.wav" ->
        <<3, 14, 3, 2, 1, 15, 11, 8, 7, 7, 13, 8, 10, 14, 14, 12, 9, 1, 14, 14, 15, 14, 1, 7, 15, 0, 8, 12, 0, 8, 3, 13, 1, 2, 1, 11, 8, 5, 9, 8>>
   []
      text = "cat/2.wav" ->
        <<1, 7, 8, 14, 15, 4, 12, 11, 11, 2, 3, 2, 10, 9, 4, 0, 15, 5, 3, 8, 5, 8, 7, 1, 12, 0, 0, 11, 14, 0, 7, 15, 12, 6, 13, 0, 2, 14, 15, 4>>
   []
      text = "d.wav" ->
        <<4, 0, 7, 14, 3, 15, 6, 15, 15, 13, 13, 7, 6, 14, 14, 5, 7, 5, 1, 4, 1, 14, 3, 10, 2, 9, 9, 9, 6, 2, 4, 13, 4, 5, 6, 14, 12, 15, 4, 11>>
   []
      text = "e.wav" ->
        <<5, 10, 6, 15, 8, 14, 4, 4, 14, 8, 9, 9, 11, 2, 8, 8, 7, 12, 7, 1, 13, 13, 8, 11, 13, 4, 4, 7, 0, 1, 4, 12, 5, 9, 7, 14, 9, 11, 11, 7>>

\* int(hash_name_hashed, 16) of line 140: the digits read most significant
\* first in base 16, carried modulo DigestWindow.
RECURSIVE int_base16(_, _)
int_base16(digits, acc) ==
    IF digits = <<>> THEN acc
    ELSE int_base16(Tail(digits), (acc * 16 + Head(digits)) % DigestWindow)

\* Faulty variant: the built-in hash(text) instead of SHA-1; its value is
\* salted with the hash seed of the process, and is the same in every
\* process only under seed 0.
filename_to_int_hash_salted(text) ==
    (int_base16(sha1_hexdigest(text), 0) + 13 * hash_seed) % DigestWindow

filename_to_int_hash(text) == int_base16(sha1_hexdigest(text), 0)

\* The (validation_percentage, testing_percentage) settings of the pipelines
\* of the model.
SplitSettings == {<<20, 20>>, <<10, 50>>, <<50, 50>>}

----------------------------------------------------------------------------
(* SpecCalls: a process issuing which_set(filename_to_int_hash(id), v, t)  *)
(* again and again, and restarted now and then; every call is recorded     *)
(* with its result and the seed of the process that made it                *)

\* The hash seeds a Python process may start with; seed 0 switches the
\* randomization of the built-in hash() off.
HashSeeds == {0, 1, 2}

InitCalls ==
    /\ calls = <<>>
    /\ hash_seed \in HashSeeds
    /\ PctUnused /\ CallUnused /\ SweepUnused /\ GrowUnused /\ ConcUnused
    /\ DagUnused

Assign(text, v, t) ==
    /\ Len(calls) < MaxCalls
    /\ calls' = Append(calls,
                       [text |-> text, v |-> v, t |-> t, seed |-> hash_seed,
                        result |-> which_set(filename_to_int_hash(text), v, t)])
    /\ UNCHANGED <<envVars, pctVars, callVars, sweepVars, growVars, concVars,
                   dagVars>>

\* The process ends and a new one starts, with another hash seed.
RestartProcess(seed) ==
    /\ seed # hash_seed
    /\ hash_seed' = seed
    /\ UNCHANGED <<pctVars, callVars, sweepVars, logVars, growVars, concVars,
                   dagVars>>

\* The calls of the model.
CallIdentifiers == {"a.wav", "b.wav", "c.wav"}
CallSettings == {<<20, 20>>, <<10, 50>>}

NextCalls ==
    \/ \E text \in CallIdentifiers, s \in CallSettings :
          Assign(text, s[1], s[2])
    \/ \E seed \in HashSeeds : RestartProcess(seed)

SpecCalls == InitCalls /\ [][NextCalls]_vars

\* The label of each file name of the model under each setting, worked out
\* by hand: the SHA-1 digests of a.wav, b.wav, c.wav, cat/2.wav, d.wav and
\* e.wav end, in decimal, in 40, 15, 96, 20, 11 and 75.
ExpectedLabel(text, v) ==
    CASE text = "a.wav" /\ v = 20 -> "train"
      [] text = "a.wav" /\ v = 10 -> "test"
      [] text = "a.wav" /\ v = 50 -> "valid"
      [] text = "b.wav" /\ v = 20 -> "valid"
      [] text = "b.wav" /\ v = 10 -> "test"
      [] text = "b.wav" /\ v = 50 -> "valid"
      [] text = "c.wav" /\ v = 20 -> "train"
      [] text = "c.wav" /\ v = 10 -> "train"
      [] text = "c.wav" /\ v = 50 -> "test"
      [] text = "cat/2.wav" /\ v = 20 -> "test"
      [] text = "cat/2.wav" /\ v = 10 -> "test"
      [] text = "cat/2.wav" /\ v = 50 -> "valid"
      [] text = "d.wav" /\ v = 20 -> "valid"
      [] text = "d.wav" /\ v = 10 -> "test"
      [] text = "d.wav" /\ v = 50 -> "valid"
      [] text = "e.wav" /\ v = 20 -> "train"
      [] text = "e.wav" /\ v = 10 -> "train"
      [] text = "e.wav" /\ v = 50 -> "test"

\* C3: calling which_set(filename_to_int_hash(id), v, t) repeatedly yields
\* the same result every time: whatever calls were made before it and in
\* whichever run of the process it is made, a call returns the one label
\* that belongs to its (id, v, t), so two calls with the same (id, v, t)
\* return the same label.
C3_SameCallSameLabel ==
    /\ \A i \in 1 .. Len(calls) :
          calls[i].result = ExpectedLabel(calls[i].text, calls[i].v)
    /\ \A i, j \in 1 .. Len(calls) :
          (/\ calls[i].text = calls[j].text
           /\ calls[i].v = calls[j].v
           /\ calls[i].t = calls[j].t) => calls[i].result = calls[j].result

\* C3 witness: the same call made first and, after a different call and a
\* restart of the process, again.
C3_Witness ==
    /\ Len(calls) = 3
    /\ calls[1].text = "b.wav" /\ calls[1].v = 20 /\ calls[1].t = 20
    /\ calls[2].text = "c.wav" /\ calls[2].v = 10
    /\ calls[3].text = "b.wav" /\ calls[3].v = 20 /\ calls[3].t = 20
    /\ calls[1].seed # calls[3].seed
    /\ calls[3].result = "valid"

----------------------------------------------------------------------------
(* SpecGrowth: a pipeline with fixed percentages that assigns every file   *)
(* of its population on each run; between runs files are added and the     *)
(* process is restarted                                                     *)

Partition(names) ==
    [name \in names |->
        which_set(filename_to_int_hash(name), validation_percentage,
                  testing_percentage)]

InitGrowth ==
    /\ \E s \in SplitSettings :
          validation_percentage = s[1] /\ testing_percentage = s[2]
    /\ hash_seed \in HashSeeds
    /\ population = {}
    /\ first_label = <<>>
    /\ partition = <<>>
    /\ CallUnused /\ SweepUnused /\ LogUnused /\ ConcUnused /\ DagUnused

\* A new file is added and the pipeline is run over the expanded list.
AddFile(text) ==
    /\ text \notin population
    /\ population' = population \cup {text}
    /\ first_label' =
          [name \in population' |->
              IF name = text
              THEN which_set(filename_to_int_hash(text),
                             validation_percentage, testing_percentage)
              ELSE first_label[name]]
    /\ partition' = Partition(population')
    /\ UNCHANGED <<envVars, pctVars, callVars, sweepVars, logVars, concVars,
                   dagVars>>

\* The pipeline is run again over the same list.
Rerun ==
    /\ population # {}
    /\ partition' = Partition(population)
    /\ UNCHANGED <<population, first_label, envVars, pctVars, callVars,
                   sweepVars, logVars, concVars, dagVars>>

\* The long run is restarted: a new process, with another hash seed.
RestartRun(seed) ==
    /\ seed # hash_seed
    /\ hash_seed' = seed
    /\ UNCHANGED <<pctVars, callVars, sweepVars, logVars, growVars, concVars,
                   dagVars>>

NextGrowth ==
    \/ \E text \in Identifiers : AddFile(text)
    \/ Rerun
    \/ \E seed \in HashSeeds : RestartRun(seed)

SpecGrowth == InitGrowth /\ [][NextGrowth]_vars

\* C4: with the percentages fixed, after any sequence of additions, re-runs
\* and restarts the partition recomputed for every earlier file is the
\* label the file had when it was first assigned, which is the one label
\* that belongs to the file under these percentages, whatever the
\* population was then and is now.
C4_StableUnderGrowth ==
    \A name \in population :
        /\ first_label[name] = ExpectedLabel(name, validation_percentage)
        /\ partition[name] = first_label[name]

\* C4 witness: four files were added one after the other and the first
\* three are spread over all three partitions.
C4_Witness ==
    /\ Cardinality(population) >= 4
    /\ {"a.wav", "b.wav", "cat/2.wav"} \subseteq population
    /\ partition["a.wav"] = "train"
    /\ partition["b.wav"] = "valid"
    /\ partition["cat/2.wav"] = "test"

----------------------------------------------------------------------------
(* SpecConc: processes that each call filename_to_int_hash and then        *)
(* which_set, one line of the source per step, in any interleaving.        *)
(* Everything the two functions read or write is a parameter or a local    *)
(* of the call, kept in the calling process's own frame.                   *)

Procs == 1 .. NumProcs

ConcIdentifiers == {"a.wav", "b.wav", "cat/2.wav"}
ConcSettings == {<<20, 20>>, <<10, 50>>}

IdleFrame ==
    [pc |-> "idle", text |-> "", v |-> 0, t |-> 0, filename_hash |-> 0,
     percentage_hash |-> 0, result |-> "none"]

InitConc ==
    /\ frames = [p \in Procs |-> IdleFrame]
    /\ PctUnused /\ CallUnused /\ SweepUnused /\ LogUnused /\ GrowUnused
    /\ DagUnused /\ EnvUnused

OthersUnchanged ==
    UNCHANGED <<envVars, pctVars, callVars, sweepVars, logVars, growVars,
                dagVars>>

\* Process p starts an assignment of file `text` under percentages (v, t).
Start(p, text, v, t) ==
    /\ frames[p].pc = "idle"
    /\ frames' = [frames EXCEPT ![p] =
                     [IdleFrame EXCEPT !.pc = "hash", !.text = text,
                                       !.v = v, !.t = t]]
    /\ OthersUnchanged

\* Lines 139-140: filename_to_int_hash(text).
Hash(p) ==
    /\ frames[p].pc = "hash"
    /\ frames' = [frames EXCEPT
                     ![p].filename_hash = filename_to_int_hash(frames[p].text),
                     ![p].pc = "mod"]
    /\ OthersUnchanged

\* Faulty variant: percentage_hash is a module-level variable shared by all calls.
ModShared(p) ==
    /\ frames[p].pc = "mod"
    /\ frames' = [q \in Procs |->
                     IF q = p
                     THEN [frames[q] EXCEPT
                              !.percentage_hash =
                                  percentage_hash(frames[p].filename_hash),
                              !.pc = "branch"]
                     ELSE [frames[q] EXCEPT
                              !.percentage_hash =
                                  percentage_hash(frames[p].filename_hash)]]
    /\ OthersUnchanged

\* Line 168: percentage_hash = filename_hash % 100, a local of the call.
Mod(p) ==
    /\ frames[p].pc = "mod"
    /\ frames' = [frames EXCEPT
                     ![p].percentage_hash =
                         percentage_hash(frames[p].filename_hash),
                     ![p].pc = "branch"]
    /\ OthersUnchanged

\* Lines 169-175: the comparisons and the return.
Branch(p) ==
    /\ frames[p].pc = "branch"
    /\ frames' = [frames EXCEPT
                     ![p].result = branch(frames[p].percentage_hash,
                                          frames[p].v, frames[p].t),
                     ![p].pc = "done"]
    /\ OthersUnchanged

\* The caller takes the label; the frame is gone.
Return(p) ==
    /\ frames[p].pc = "done"
    /\ frames' = [frames EXCEPT ![p] = IdleFrame]
    /\ OthersUnchanged

NextConc ==
    \E p \in Procs :
        \/ \E text \in ConcIdentifiers, s \in ConcSettings :
              Start(p, text, s[1], s[2])
        \/ Hash(p)
        \/ Mod(p)
        \/ Branch(p)
        \/ Return(p)

SpecConc == InitConc /\ [][NextConc]_vars

\* The label of each file of SpecConc under each setting when the call runs
\* alone, computed by hand from the SHA-1 digests: the buckets of a.wav,
\* b.wav and cat/2.wav are 40, 15 and 20.
AloneLabel(text, v) ==
    CASE text = "a.wav" /\ v = 20 -> "train"
      [] text = "a.wav" /\ v = 10 -> "test"
      [] text = "b.wav" /\ v = 20 -> "valid"
      [] text = "b.wav" /\ v = 10 -> "test"
      [] text = "cat/2.wav" /\ v = 20 -> "test"
      [] text = "cat/2.wav" /\ v = 10 -> "test"

\* Each finished call holds the label the same call returns when run alone,
\* and every intermediate value of a call is the one it computes alone.
AsWhenAlone ==
    \A p \in Procs :
        LET f == frames[p] IN
        /\ f.pc \in {"mod", "branch", "done"} =>
              f.filename_hash = filename_to_int_hash(f.text)
        /\ f.pc \in {"branch", "done"} =>
              f.percentage_hash = BucketOf(filename_to_int_hash(f.text))
        /\ f.pc = "done" => f.result = AloneLabel(f.text, f.v)

\* A step that changes one process's frame changes no other process's.
FramesIsolated ==
    \A p, q \in Procs :
        (frames'[p] # frames[p] /\ q # p) => frames'[q] = frames[q]

\* C9: whatever the number of processes and the interleaving of their steps,
\* each call returns the label it returns when run alone, and no step of a
\* call changes any state of another call.
C9_SafeWithoutCoordination == []AsWhenAlone /\ [][FramesIsolated]_vars

\* C9 witness: two calls with different labels are finished at the same
\* time, their steps having interleaved.
C9_Witness ==
    /\ frames[1].pc = "done" /\ frames[2].pc = "done"
    /\ frames[1].text = "a.wav" /\ frames[1].v = 20 /\ frames[1].result = "train"
    /\ frames[2].text = "b.wav" /\ frames[2].v = 20 /\ frames[2].result = "valid"

----------------------------------------------------------------------------
(* WorkTask.stage_number: luigi.py 84-106 *)

\* A task is [overrides, requires]: whether its class overrides stage_number
\* as 0 (lines 90-91), and what its requires() returns, as
\* [shape, items]: shape "task" (one WorkTask), "list", "dict" or "other"
\* (anything else, such as None or a tuple), and the items of the list or
\* the values of the dict in order, each a task [is_list |-> FALSE,
\* ts |-> <<j>>] or a list of tasks [is_list |-> TRUE, ts |-> <<j, ...>>].
\* Tasks are named by their position in `tasks`; a task requires only tasks
\* built before it.

Ok(n) == [ok |-> TRUE, n |-> n, error |-> "none"]
Raise(e) == [ok |-> FALSE, n |-> 0, error |-> e]

\* Faulty variant: the smallest stage number instead of the largest.
PyMin(ns) ==
    CHOOSE m \in {ns[k] : k \in 1 .. Len(ns)} :
        \A k \in 1 .. Len(ns) : ns[k] >= m

\* max([...]) of lines 96 and 104, of a non-empty list.
PyMax(ns) ==
    CHOOSE m \in {ns[k] : k \in 1 .. Len(ns)} :
        \A k \in 1 .. Len(ns) : ns[k] <= m

\* Lines 98-103: the values of the dict, those that are lists flattened.
RECURSIVE parentasks(_)
parentasks(items) ==
    IF items = <<>> THEN <<>>
    ELSE IF Head(items).is_list
         THEN Head(items).ts \o parentasks(Tail(items))
         ELSE <<Head(items).ts[1]>> \o parentasks(Tail(items))

\* Line 96: the elements of the list, each a task.
list_tasks(items) == [k \in 1 .. Len(items) |-> items[k].ts[1]]

RECURSIVE stage_number(_)

\* 1 + max([task.stage_number for task in parents]): the list comprehension
\* evaluates every parent's stage_number first, so a parent's failure is the
\* task's; then max() of an empty list raises ValueError.
one_plus_max(parents) ==
    LET stages == [k \in 1 .. Len(parents) |-> stage_number(parents[k])]
        failed == {k \in 1 .. Len(parents) : ~stages[k].ok}
    IN  IF failed # {}
        THEN stages[CHOOSE k \in failed : \A m \in failed : k <= m]
        ELSE IF parents = <<>>
        THEN Raise("ValueError")
        ELSE Ok(1 + PyMax([k \in 1 .. Len(parents) |-> stages[k].n]))

stage_number(i) ==
    LET req == tasks[i].requires IN
    IF tasks[i].overrides THEN Ok(0)
    ELSE IF req.shape = "task"
    THEN LET parent == stage_number(req.items[1].ts[1])
         IN  IF parent.ok THEN Ok(1 + parent.n) ELSE parent
    ELSE IF req.shape = "list" THEN one_plus_max(list_tasks(req.items))
    ELSE IF req.shape = "dict" THEN one_plus_max(parentasks(req.items))
    ELSE Raise("ValueError")

----------------------------------------------------------------------------
(* SpecStage: tasks are built one after the other, each requiring tasks    *)
(* built before it                                                          *)

RECURSIVE Ascending(_)
\* The elements of a set of task numbers in increasing order.
Ascending(S) ==
    IF S = {} THEN <<>>
    ELSE LET least == CHOOSE x \in S : \A y \in S : x <= y
         IN  <<least>> \o Ascending(S \ {least})

TaskValue(j) == [is_list |-> FALSE, ts |-> <<j>>]
ListValue(S) == [is_list |-> TRUE, ts |-> Ascending(S)]

\* The values a dict may hold when k tasks exist.
TaskValues(k) == {TaskValue(j) : j \in 1 .. k}
ListValues(k) == {ListValue(S) : S \in SUBSET (1 .. k)}

\* The dicts of the model: empty, of one value, or of a task and a list in
\* either order.
Dicts(k) ==
    {<<>>} \cup {<<a>> : a \in TaskValues(k) \cup ListValues(k)}
           \cup {<<a, b>> : a \in TaskValues(k), b \in ListValues(k)}
           \cup {<<b, a>> : a \in TaskValues(k), b \in ListValues(k)}

Requires(shape, items) == [shape |-> shape, items |-> items]

InitStage ==
    /\ tasks = <<>>
    /\ PctUnused /\ CallUnused /\ SweepUnused /\ LogUnused /\ GrowUnused
    /\ ConcUnused /\ EnvUnused

AddTask(task) ==
    /\ Len(tasks) < MaxTasks
    /\ tasks' = Append(tasks, task)
    /\ UNCHANGED <<envVars, pctVars, callVars, sweepVars, logVars, growVars,
                   concVars>>

\* A task without requirements (luigi's default requires() returns []) whose
\* class overrides stage_number as 0.
AddSource ==
    AddTask([overrides |-> TRUE, requires |-> Requires("list", <<>>)])

\* A task whose requires() returns one earlier task.
AddRequiringTask ==
    \E j \in 1 .. Len(tasks) :
        AddTask([overrides |-> FALSE,
                 requires |-> Requires("task", <<TaskValue(j)>>)])

\* A task whose requires() returns a list of earlier tasks, possibly empty.
AddRequiringList ==
    \E S \in SUBSET (1 .. Len(tasks)) :
        AddTask([overrides |-> FALSE,
                 requires |-> Requires("list",
                     [k \in 1 .. Cardinality(S) |-> TaskValue(Ascending(S)[k])])])

\* A task whose requires() returns a dict of earlier tasks and lists of them.
AddRequiringDict ==
    \E d \in Dicts(Len(tasks)) :
        AddTask([overrides |-> FALSE, requires |-> Requires("dict", d)])

\* A task whose requires() returns something else.
AddRequiringOther ==
    AddTask([overrides |-> FALSE, requires |-> Requires("other", <<>>)])

NextStage ==
    \/ AddSource
    \/ AddRequiringTask
    \/ AddRequiringList
    \/ AddRequiringDict
    \/ AddRequiringOther

SpecStage == InitStage /\ [][NextStage]_vars

Built == 1 .. Len(tasks)

\* The direct requirements of task i, as a set.
DirectReqs(i) ==
    LET items == tasks[i].requires.items IN
    {j \in Built : \E k \in 1 .. Len(items) :
                      \E m \in 1 .. Len(items[k].ts) : items[k].ts[m] = j}

SetMax(S) == CHOOSE m \in S : \A x \in S : x <= m

\* S is a chain of requirements: each task of S but the least requires the
\* next lower task of S.
IsChain(S) ==
    \A a \in S :
        LET below == {b \in S : b < a}
        IN  below # {} => SetMax(below) \in DirectReqs(a)

\* The number of edges of the longest chain of requirements from task i.
LongestChain(i) ==
    SetMax({Cardinality(S) - 1 :
               S \in {T \in SUBSET (1 .. i) : i \in T /\ IsChain(T)}})

\* Every task without requirements overrides stage_number as 0, and every
\* other task does not and has a requires() of one of the three shapes.
WellFormed ==
    \A i \in Built :
        IF DirectReqs(i) = {}
        THEN tasks[i].overrides
        ELSE /\ ~tasks[i].overrides
             /\ tasks[i].requires.shape \in {"task", "list", "dict"}

\* C10: a task whose requires() is one task, a non-empty list of tasks or a
\* dict of tasks and lists of tasks has stage number 1 + the maximum stage
\* number of its direct requirements (lists in dicts flattened), when these
\* have one; in a DAG whose requirement-free tasks override stage_number as
\* 0, every stage number exceeds that of each requirement and is the length
\* of the task's longest chain of requirements; any other shape raises
\* ValueError; and a task without requirements that does not override
\* stage_number gets no stage number.
C10_StageNumbers ==
    /\ \A i \in Built :
          LET sn == stage_number(i)
              shape == tasks[i].requires.shape
          IN  /\ (/\ ~tasks[i].overrides
                  /\ shape \in {"task", "list", "dict"}
                  /\ DirectReqs(i) # {}
                  /\ \A j \in DirectReqs(i) : stage_number(j).ok) =>
                     /\ sn.ok
                     /\ sn.n = 1 + SetMax({stage_number(j).n : j \in DirectReqs(i)})
              /\ (~tasks[i].overrides /\ shape = "other") =>
                     (~sn.ok /\ sn.error = "ValueError")
              /\ (~tasks[i].overrides /\ DirectReqs(i) = {}) => ~sn.ok
    /\ WellFormed =>
          \A i \in Built :
              /\ stage_number(i).ok
              /\ \A j \in DirectReqs(i) : stage_number(i).n > stage_number(j).n
              /\ stage_number(i).n = LongestChain(i)

\* C10 witness: a well-formed DAG of three tasks where the third requires,
\* through a dict holding a task and a list, the source (stage 0) and the
\* second task (stage 1), and so has stage 2.
C10_Witness ==
    /\ Len(tasks) = 3
    /\ WellFormed
    /\ tasks[3].requires.shape = "dict"
    /\ Len(tasks[3].requires.items) = 2
    /\ tasks[3].requires.items[2].is_list
    /\ DirectReqs(3) = {1, 2}
    /\ stage_number(1) = Ok(0)
    /\ stage_number(2) = Ok(1)
    /\ stage_number(3) = Ok(2)

====
